---------------------------- MODULE Spec2Model ----------------------------
(***************************************************************************)
(* HumanNeuroRedcap (src/ucsfndt/redcap/humandatabase/humanneuroredcap.py) *)
(* as a state machine: the instance (key_file, database), the records      *)
(* service it talks to (table), and callers running add_patient step by    *)
(* step, one step per call to the records service or per random draw.      *)
(*                                                                         *)
(* Text is a sequence of one-character strings, so that int(), the "0Nd"   *)
(* formats and lower() are computed character by character.                *)
(***************************************************************************)
EXTENDS Integers, Sequences, FiniteSets, TLC

\* Python's None: no text (a sequence of one-character strings) equals it.
None == <<"None">>
Project == <<"Project">>
NaN == [k |-> "nan"]

(***************************************************************************)
(* Bounds of the model.                                                    *)
(***************************************************************************)
\* Length of a short ID.  The code draws 4 characters and formats a numeric
\* ucsf_id cell to the same width; the model uses one length, IdLen, for both.
IdLen == 1
\* import_records calls the records service accepts in one behaviour.
MaxImports == 2

(***************************************************************************)
(* Program constants.                                                      *)
(***************************************************************************)
\* f"{int(m):0{8}d}"
MrnWidth == 8
\* f"{int(g):0{32}d}"
GuidWidth == 32
\* string.ascii_uppercase + string.digits, cut down to one letter and one
\* digit (a digits-only code takes the numeric branch of the index).
valid_id_chars == {"A", "0"}
DEFAULT_KEY_FILE == "redcap_key.toml"
PHI_EVENT == "general_phi_arm_1"
INFO_EVENT == "demographics_arm_1"

(***************************************************************************)
(* Text conversions.                                                       *)
(***************************************************************************)
Digits == <<"0", "1", "2", "3", "4", "5", "6", "7", "8", "9">>
Uppers == <<"A", "D", "E", "J", "L", "O", "R">>
Lowers == <<"a", "d", "e", "j", "l", "o", "r">>

IsDigit(c) == \E i \in 1..10 : Digits[i] = c
DigitVal(c) == (CHOOSE i \in 1..10 : Digits[i] = c) - 1
AllDigits(s) == Len(s) > 0 /\ \A i \in 1..Len(s) : IsDigit(s[i])

\* int(s) for a string of decimal digits
RECURSIVE IntOf(_)
IntOf(s) == IF Len(s) = 0 THEN 0
            ELSE 10 * IntOf(SubSeq(s, 1, Len(s) - 1)) + DigitVal(s[Len(s)])

\* the decimal digits of n >= 0
RECURSIVE Dec(_)
Dec(n) == IF n < 10 THEN <<Digits[n + 1]>>
          ELSE Dec(n \div 10) \o <<Digits[(n % 10) + 1]>>

RECURSIVE ZeroPad(_, _)
ZeroPad(s, w) == IF Len(s) >= w THEN s ELSE ZeroPad(<<"0">> \o s, w)

\* f"{n:0{w}d}"
Format(n, w) == ZeroPad(Dec(n), w)

\* str.lower()
LowerChar(c) == IF \E i \in 1..Len(Uppers) : Uppers[i] = c
                THEN Lowers[CHOOSE i \in 1..Len(Uppers) : Uppers[i] = c]
                ELSE c
Lower(s) == [i \in 1..Len(s) |-> LowerChar(s[i])]

(***************************************************************************)
(* Inputs.                                                                 *)
(***************************************************************************)
\* mrn arguments: numeric strings, zero-padded to 8 digits or not (int() of
\* line 106 raises on any other text)
Mrns == { Format(1, MrnWidth), <<"1">>, Format(2, MrnWidth) }
\* (first_name, last_name) arguments
Names == { << <<"J", "o">>, <<"D", "o", "e">> >>,
           << <<"J", "O">>, <<"d", "o", "e">> >>,
           << <<"A", "l">>, <<"D", "o", "e">> >>,
           << <<"J", "o">>, <<"R", "o", "e">> >> }
\* every code the draws of lines 134 and 136 can produce
Codes == [1..IdLen -> valid_id_chars]
\* uuid.uuid4().hex values (hex text with a letter: a string cell on export)
Guids == { <<"a", "1">>, <<"b", "2">> }
Procs == {1, 2}

VARIABLES
    key_file,       \* self.key_file
    database,       \* self.database: None or a Project handle
    table,          \* the records service: <<record_id, event>> -> fields
    nimports,       \* import_records calls accepted so far
    pc,             \* per caller: position in add_patient
    args,           \* per caller: the arguments of the running/last call
    records,        \* per caller: local records, the exported rows
    patient_info,   \* per caller: local patient_info
    ucsf_ids,       \* per caller: local ucsf_ids
    ucsf_guids,     \* per caller: local ucsf_guids
    ucsf_id,        \* per caller: local ucsf_id after allocation
    ucsf_guid,      \* per caller: local ucsf_guid after allocation
    redrawn,        \* per caller: a draw of the running call was discarded
    calls,          \* per caller: records-service calls of the running/last call
    batch,          \* per caller: the batch handed to import_records
    outcome,        \* per caller: how the last call ended
    ret             \* per caller: the value the last call returned

vars == <<key_file, database, table, nimports, pc, args, records, patient_info,
          ucsf_ids, ucsf_guids, ucsf_id, ucsf_guid, redrawn, calls, batch, outcome, ret>>

instance_vars == <<key_file, database>>
local_vars == <<records, patient_info, ucsf_ids, ucsf_guids, ucsf_id, ucsf_guid, redrawn>>

(***************************************************************************)
(* The records service as the module uses it.                              *)
(***************************************************************************)
\* pandas types a cell of the exported frame: empty -> NaN, digits -> number
ExportCell(v) == IF v = None THEN NaN
                 ELSE IF AllDigits(v) THEN [k |-> "num", v |-> IntOf(v)]
                 ELSE [k |-> "str", v |-> v]

Field(tbl, key, f) == IF f \in DOMAIN tbl[key] THEN tbl[key][f] ELSE None

\* export_records("df", fields=[...], events=[...]): one row per record and event
ExportRows(tbl) ==
    { [ f \in {"mrn", "first_name", "last_name", "ucsf_id", "ucsf_guid"} |->
          ExportCell(Field(tbl, key, f)) ] : key \in DOMAIN tbl }

\* import_records(batch): each record replaces the row of its record_id and event
RECURSIVE ImportRecords(_, _)
ImportRecords(tbl, recs) ==
    IF Len(recs) = 0 THEN tbl
    ELSE LET r == Head(recs)
             key == <<r.record_id, r.redcap_event_name>>
             put == [ k \in DOMAIN tbl \cup {key} |-> IF k = key THEN r ELSE tbl[k] ]
         IN  ImportRecords(put, Tail(recs))

(***************************************************************************)
(* add_patient, lines 104-124: the index built from the exported rows.     *)
(***************************************************************************)
IsStr(c) == c.k = "str"
IsNaN(c) == c.k = "nan"
\* int(m) of a cell: a string is parsed, a number truncated
IntCell(c) == IF IsStr(c) THEN IntOf(c.v) ELSE c.v
\* the raw value row[1][...] of a cell that holds text
Raw(c) == IF IsStr(c) THEN c.v ELSE c

MrnKey(c) == Format(IntCell(c), MrnWidth)
MrnRows(rows) == { r \in rows : IsStr(r.mrn) \/ ~IsNaN(r.mrn) }

\* patient_info after the loop: a later row replaces an earlier one with the
\* same key; the order of the rows is the service's, so any row may be last
PatientInfos(rows) ==
    LET keys == { MrnKey(r.mrn) : r \in MrnRows(rows) }
        vals(k) == { <<Raw(r.first_name), Raw(r.last_name)>> :
                       r \in { x \in MrnRows(rows) : MrnKey(x.mrn) = k } }
    IN  { f \in [keys -> UNION { vals(k) : k \in keys }] :
            \A k \in keys : f[k] \in vals(k) }

\* faulty variant: the numeric branch of lines 111-112 left out
UcsfIdsStringsOnly(rows) == { r.ucsf_id.v : r \in { x \in rows : IsStr(x.ucsf_id) } }

IdOfCell(c, w) == IF IsStr(c) THEN c.v ELSE Format(IntCell(c), w)
UcsfIds(rows) == { IdOfCell(r.ucsf_id, IdLen) : r \in { x \in rows : ~IsNaN(x.ucsf_id) } }
UcsfGuids(rows) ==
    { IdOfCell(r.ucsf_guid, GuidWidth) : r \in { x \in rows : ~IsNaN(x.ucsf_guid) } }

(***************************************************************************)
(* add_patient, lines 126-152: the decisions.                              *)
(***************************************************************************)
\* faulty variant: the guard of line 91 never fires
NotConnectedNever(db) == FALSE

\* line 91
NotConnected(db) == db = None

\* line 126: patient_info.get(mrn, None) is not None
Known(info, mrn) == mrn \in DOMAIN info

\* line 127
SameNames(first_name, last_name, p_info) ==
    Lower(first_name) = Lower(p_info[1]) /\ Lower(last_name) = Lower(p_info[2])

\* faulty variant: the loop never rejects a draw
CollidesNever(c, existing) == FALSE

\* faulty variant: the loop rejects every draw once the set is non-empty
CollidesWithAny(c, existing) == existing # {}

\* lines 135 and 140: the loop condition
Collides(c, existing) == c \in existing

\* faulty variant: the demographics record keyed by the GUID
BatchKeyedByGuid(mrn, first_name, last_name, id, guid, nda_guid) ==
    << [record_id |-> id, redcap_event_name |-> PHI_EVENT, mrn |-> mrn,
        first_name |-> first_name, last_name |-> last_name],
       [record_id |-> guid, redcap_event_name |-> INFO_EVENT, ucsf_id |-> id,
        ucsf_guid |-> guid, nda_guid |-> nda_guid] >>

\* lines 143-144
Batch(mrn, first_name, last_name, id, guid, nda_guid) ==
    << [record_id |-> id, redcap_event_name |-> PHI_EVENT, mrn |-> mrn,
        first_name |-> first_name, last_name |-> last_name],
       [record_id |-> id, redcap_event_name |-> INFO_EVENT, ucsf_id |-> id,
        ucsf_guid |-> guid, nda_guid |-> nda_guid] >>

\* faulty variant: the return placed inside the try block
ReturnIfVerified(id, guid, verified) == IF verified THEN <<id, guid>> ELSE None

\* line 152, reached whether or not the verification export raised
ReturnValue(id, guid, verified) == <<id, guid>>

(***************************************************************************)
(* Initial state: the class attributes, an empty project.                  *)
(***************************************************************************)
NoArgs == [mrn |-> None, first_name |-> None, last_name |-> None,
           ucsf_id |-> None, ucsf_guid |-> None, nda_guid |-> None]

Init ==
    /\ key_file = DEFAULT_KEY_FILE
    /\ database = None
    /\ table = << >>
    /\ nimports = 0
    /\ pc = [p \in Procs |-> "idle"]
    /\ args = [p \in Procs |-> NoArgs]
    /\ records = [p \in Procs |-> {}]
    /\ patient_info = [p \in Procs |-> << >>]
    /\ ucsf_ids = [p \in Procs |-> {}]
    /\ ucsf_guids = [p \in Procs |-> {}]
    /\ ucsf_id = [p \in Procs |-> None]
    /\ ucsf_guid = [p \in Procs |-> None]
    /\ redrawn = [p \in Procs |-> FALSE]
    /\ calls = [p \in Procs |-> << >>]
    /\ batch = [p \in Procs |-> << >>]
    /\ outcome = [p \in Procs |-> "none"]
    /\ ret = [p \in Procs |-> None]

(***************************************************************************)
(* construct and connect.                                                  *)
(***************************************************************************)
\* lines 69-77: credentials are loaded from key_file when an argument is
\* missing; loaded = FALSE is load_credentials or Project() raising
ConnectTo(db, loaded) == IF loaded THEN Project ELSE db

\* a call that raised, or stored what was there already, leaves the state as
\* it is: a stuttering step, which every specification allows
InstanceChanged == <<key_file', database'>> # <<key_file, database>>

\* connect(url, token)
Connect(loaded) ==
    /\ database' = ConnectTo(database, loaded)
    /\ key_file' = key_file
    /\ InstanceChanged
    /\ UNCHANGED <<table, nimports, pc, args, local_vars, calls, batch, outcome, ret>>

\* construct(config_file, connect): config_file is None, a str, a Path or
\* of another type, which raises ValueError before anything is stored
Construct(config_file, connect, loaded) ==
    /\ config_file.type \in {"NoneType", "str", "Path"}
    /\ key_file' = IF config_file.type = "NoneType" THEN key_file ELSE config_file.path
    /\ database' = IF connect THEN ConnectTo(database, loaded) ELSE database
    /\ InstanceChanged
    /\ UNCHANGED <<table, nimports, pc, args, local_vars, calls, batch, outcome, ret>>

(***************************************************************************)
(* add_patient.                                                            *)
(***************************************************************************)
ClearLocals(p) ==
    /\ records' = [records EXCEPT ![p] = {}]
    /\ patient_info' = [patient_info EXCEPT ![p] = << >>]
    /\ ucsf_ids' = [ucsf_ids EXCEPT ![p] = {}]
    /\ ucsf_guids' = [ucsf_guids EXCEPT ![p] = {}]
    /\ ucsf_id' = [ucsf_id EXCEPT ![p] = None]
    /\ ucsf_guid' = [ucsf_guid EXCEPT ![p] = None]
    /\ redrawn' = [redrawn EXCEPT ![p] = FALSE]
    /\ calls' = [calls EXCEPT ![p] = << >>]
    /\ batch' = [batch EXCEPT ![p] = << >>]
    /\ ret' = [ret EXCEPT ![p] = None]

\* lines 91-92: the call enters; without a session handle it raises at once
AddPatient(p, a) ==
    /\ pc[p] = "idle"
    /\ args' = [args EXCEPT ![p] = a]
    /\ ClearLocals(p)
    /\ IF NotConnected(database)
       THEN /\ outcome' = [outcome EXCEPT ![p] = "RuntimeError"]
            /\ pc' = [pc EXCEPT ![p] = "done"]
       ELSE /\ outcome' = [outcome EXCEPT ![p] = "running"]
            /\ pc' = [pc EXCEPT ![p] = "export"]
    /\ UNCHANGED <<instance_vars, table, nimports>>

AfterCheck(a) == IF a.ucsf_id = None THEN "draw_id"
                 ELSE IF a.ucsf_guid = None THEN "draw_guid" ELSE "import"
AfterId(a) == IF a.ucsf_guid = None THEN "draw_guid" ELSE "import"

\* lines 98-131: export, index, duplicate check (all local after the export)
ExportAndCheck(p) ==
    /\ pc[p] = "export"
    /\ calls' = [calls EXCEPT ![p] = Append(@, "export_records")]
    /\ LET rows == ExportRows(table)
           a == args[p]
       IN  /\ records' = [records EXCEPT ![p] = rows]
           /\ \E info \in PatientInfos(rows) :
                /\ patient_info' = [patient_info EXCEPT ![p] = info]
                /\ IF Known(info, a.mrn)
                   THEN IF SameNames(a.first_name, a.last_name, info[a.mrn])
                        THEN /\ outcome' = [outcome EXCEPT ![p] = "warned"]
                             /\ pc' = [pc EXCEPT ![p] = "done"]
                        ELSE /\ outcome' = [outcome EXCEPT ![p] = "ValueError"]
                             /\ pc' = [pc EXCEPT ![p] = "done"]
                   ELSE /\ outcome' = outcome
                        /\ pc' = [pc EXCEPT ![p] = AfterCheck(a)]
           /\ ucsf_ids' = [ucsf_ids EXCEPT ![p] = UcsfIds(rows)]
           /\ ucsf_guids' = [ucsf_guids EXCEPT ![p] = UcsfGuids(rows)]
           /\ ucsf_id' = [ucsf_id EXCEPT ![p] = a.ucsf_id]
           /\ ucsf_guid' = [ucsf_guid EXCEPT ![p] = a.ucsf_guid]
    /\ UNCHANGED <<instance_vars, table, nimports, args, redrawn, batch, ret>>

\* lines 134-136: one draw of the short ID; a colliding draw is drawn again
DrawId(p, c) ==
    /\ pc[p] = "draw_id"
    /\ IF Collides(c, ucsf_ids[p])
       THEN /\ redrawn' = [redrawn EXCEPT ![p] = TRUE]
            /\ UNCHANGED <<pc, ucsf_id>>
       ELSE /\ ucsf_id' = [ucsf_id EXCEPT ![p] = c]
            /\ pc' = [pc EXCEPT ![p] = AfterId(args[p])]
            /\ UNCHANGED redrawn
    /\ UNCHANGED <<instance_vars, table, nimports, args, records, patient_info,
                   ucsf_ids, ucsf_guids, ucsf_guid, calls, batch, outcome, ret>>

\* lines 139-141: one draw of the GUID
DrawGuid(p, g) ==
    /\ pc[p] = "draw_guid"
    /\ IF Collides(g, ucsf_guids[p])
       THEN UNCHANGED <<pc, ucsf_guid>>
       ELSE /\ ucsf_guid' = [ucsf_guid EXCEPT ![p] = g]
            /\ pc' = [pc EXCEPT ![p] = "import"]
    /\ UNCHANGED <<instance_vars, table, nimports, args, records, patient_info,
                   ucsf_ids, ucsf_guids, ucsf_id, redrawn, calls, batch, outcome, ret>>

\* lines 143-145: both records in one import_records call
Import(p) ==
    /\ pc[p] = "import"
    /\ nimports < MaxImports
    /\ LET a == args[p]
           b == Batch(a.mrn, a.first_name, a.last_name, ucsf_id[p], ucsf_guid[p],
                      a.nda_guid)
       IN  /\ batch' = [batch EXCEPT ![p] = b]
           /\ table' = ImportRecords(table, b)
    /\ nimports' = nimports + 1
    /\ calls' = [calls EXCEPT ![p] = Append(@, "import_records")]
    /\ pc' = [pc EXCEPT ![p] = "verify"]
    /\ UNCHANGED <<instance_vars, args, local_vars, outcome, ret>>

\* lines 147-152: the re-fetch, which may raise (verified = FALSE), and return
Verify(p, verified) ==
    /\ pc[p] = "verify"
    /\ calls' = [calls EXCEPT ![p] = Append(@, "export_records")]
    /\ outcome' = [outcome EXCEPT ![p] = IF verified THEN "returned"
                                         ELSE "returned_unverified"]
    /\ ret' = [ret EXCEPT ![p] = ReturnValue(ucsf_id[p], ucsf_guid[p], verified)]
    /\ pc' = [pc EXCEPT ![p] = "done"]
    /\ UNCHANGED <<instance_vars, table, nimports, args, local_vars, batch>>

\* lines 98 and 145: the records service raises; nothing catches the
\* exception, so the call ends with it (a refused import changes no row)
ServiceRaises(p) ==
    /\ pc[p] \in {"export", "import"}
    /\ IF pc[p] = "export"
       THEN /\ calls' = [calls EXCEPT ![p] = Append(@, "export_records")]
            /\ batch' = batch
       ELSE LET a == args[p]
            IN  /\ calls' = [calls EXCEPT ![p] = Append(@, "import_records")]
                /\ batch' = [batch EXCEPT ![p] =
                               Batch(a.mrn, a.first_name, a.last_name, ucsf_id[p],
                                     ucsf_guid[p], a.nda_guid)]
    /\ outcome' = [outcome EXCEPT ![p] = IF pc[p] = "export" THEN "ExportError"
                                         ELSE "ImportError"]
    /\ pc' = [pc EXCEPT ![p] = "done"]
    /\ UNCHANGED <<instance_vars, table, nimports, args, local_vars, ret>>

\* the call is over: its frame, and what it handed to its caller, are gone
Return(p) ==
    /\ pc[p] = "done"
    /\ pc' = [pc EXCEPT ![p] = "idle"]
    /\ args' = [args EXCEPT ![p] = NoArgs]
    /\ outcome' = [outcome EXCEPT ![p] = "none"]
    /\ ClearLocals(p)
    /\ UNCHANGED <<instance_vars, table, nimports>>

(***************************************************************************)
(* Specifications.                                                         *)
(***************************************************************************)
\* config_file of construct: None, a path, a value of another type
ConfigFiles == { [type |-> "NoneType", path |-> None],
                 [type |-> "str", path |-> "study.toml"],
                 [type |-> "int", path |-> None] }

\* add_patient is called without ucsf_guid and nda_guid; nda_guids (lines 97,
\* 120-124) is built and never read, and is left out
Arguments ==
    { [mrn |-> m, first_name |-> n[1], last_name |-> n[2], ucsf_id |-> i,
       ucsf_guid |-> g, nda_guid |-> None] :
        m \in Mrns, n \in Names, i \in {None} \cup Codes, g \in {None} }

\* two callers, each adding a patient of its own, no ucsf_id supplied
ArgumentsOf(p) ==
    { a \in Arguments : /\ a.ucsf_id = None
                        /\ a.mrn = Format(p, MrnWidth)
                        /\ a.first_name = <<"J", "o">> }

Step(p, inputs) ==
    \/ \E a \in inputs : AddPatient(p, a)
    \/ ExportAndCheck(p)
    \/ \E c \in Codes : DrawId(p, c)
    \/ \E g \in Guids : DrawGuid(p, g)
    \/ Import(p)
    \/ ServiceRaises(p)
    \/ \E verified \in BOOLEAN : Verify(p, verified)
    \/ Return(p)

Instance ==
    \/ \E loaded \in BOOLEAN : Connect(loaded)
    \/ \E f \in ConfigFiles, c, loaded \in BOOLEAN : Construct(f, c, loaded)

\* one caller: add_patient calls never overlap
Next == Instance \/ Step(1, Arguments)

Spec == Init /\ [][Next]_vars

\* two callers, no lock between them
NextConc == Instance \/ \E p \in Procs : Step(p, ArgumentsOf(p))

SpecConc == Init /\ [][NextConc]_vars

(***************************************************************************)
(* A project that already holds patients: for each short ID of a set, the  *)
(* two records an earlier add_patient call wrote under it.                 *)
(***************************************************************************)
CharNo(ch) == IF ch = "A" THEN 1 ELSE 2
RECURSIVE CodeNo(_)
CodeNo(c) == IF Len(c) = 0 THEN 0
             ELSE 3 * CodeNo(SubSeq(c, 1, Len(c) - 1)) + CharNo(c[Len(c)])

EarlierBatch(c) ==
    Batch(Format(1000 + CodeNo(c), MrnWidth), <<"E", "d">>, <<"L", "e", "e">>,
          c, <<"f">> \o c, None)

RECURSIVE Holding(_)
Holding(ids) ==
    IF ids = {} THEN << >>
    ELSE LET c == CHOOSE x \in ids : TRUE
         IN  ImportRecords(Holding(ids \ {c}), EarlierBatch(c))

InitHolding ==
    /\ key_file = DEFAULT_KEY_FILE
    /\ database = None
    /\ table \in { Holding(ids) : ids \in SUBSET Codes }
    /\ nimports = 0
    /\ pc = [p \in Procs |-> "idle"]
    /\ args = [p \in Procs |-> NoArgs]
    /\ records = [p \in Procs |-> {}]
    /\ patient_info = [p \in Procs |-> << >>]
    /\ ucsf_ids = [p \in Procs |-> {}]
    /\ ucsf_guids = [p \in Procs |-> {}]
    /\ ucsf_id = [p \in Procs |-> None]
    /\ ucsf_guid = [p \in Procs |-> None]
    /\ redrawn = [p \in Procs |-> FALSE]
    /\ calls = [p \in Procs |-> << >>]
    /\ batch = [p \in Procs |-> << >>]
    /\ outcome = [p \in Procs |-> "none"]
    /\ ret = [p \in Procs |-> None]

\* a draw that the loop condition lets through
DrawFresh(p) == \E c \in Codes : ~Collides(c, ucsf_ids[p]) /\ DrawId(p, c)

NextAlloc == Instance \/ Step(1, ArgumentsOf(1) \cup ArgumentsOf(2))

\* one caller, no ucsf_id supplied; secrets.choice is fair: a code that has a
\* positive chance at every draw is drawn in the end
SpecAlloc == InitHolding /\ [][NextAlloc]_vars /\ WF_vars(DrawFresh(1))

(***************************************************************************)
(* What the claims speak of.                                               *)
(***************************************************************************)
\* the export of line 98 answered
Exported(p) == Len(calls[p]) > 0 /\ outcome[p] # "ExportError"
\* and the call got past the duplicate check of lines 126-131
Passed(p) == Exported(p) /\ ~Known(patient_info[p], args[p].mrn)
\* a batch was handed to import_records
Submitted(p) == batch[p] # << >>
\* and the service took it
Imported(p) == Submitted(p) /\ outcome[p] # "ImportError"
Generates(p) == args[p].ucsf_id = None
Returned(p) == pc[p] = "done" /\ outcome[p] \in {"returned", "returned_unverified"}
ImportCalls(p) == Cardinality({ i \in 1..Len(calls[p]) : calls[p][i] = "import_records" })
\* the call's mrn in its 8-digit zero-padded form
Normalized(mrn) == Format(IntOf(mrn), MrnWidth)
NamesOf(r) == <<Raw(r.first_name), Raw(r.last_name)>>
\* the exported rows that carry the mrn passed to the call
RowsOfMrn(p) == { r \in MrnRows(records[p]) : MrnKey(r.mrn) = args[p].mrn }
SameIgnoringCase(p, r) ==
    /\ Lower(NamesOf(r)[1]) = Lower(args[p].first_name)
    /\ Lower(NamesOf(r)[2]) = Lower(args[p].last_name)

\* C1: a short ID that add_patient generated (no ucsf_id supplied) is never in
\* the set of existing short IDs built from that call's export: not while it is
\* held, not when written, not when returned.
C1_GeneratedIdNotExisting ==
    \A p \in Procs :
        Generates(p) /\ ucsf_id[p] # None =>
            /\ ucsf_id[p] \notin ucsf_ids[p]
            /\ ucsf_id[p] \in Codes
            /\ Submitted(p) => batch[p][1].record_id \notin ucsf_ids[p]
            /\ ret[p] # None => ret[p][1] \notin ucsf_ids[p]

\* C1 witness: a call returned a generated ID after discarding a colliding draw.
C1_Witness ==
    \E p \in Procs :
        /\ Generates(p) /\ Returned(p) /\ redrawn[p]
        /\ ucsf_ids[p] # {}
        /\ ret[p][1] \notin ucsf_ids[p]

\* C2: every call that submits an import writes a record_id that is not among
\* the short IDs of the table exported by that call, generated or supplied.
C2_WrittenIdNotExisting ==
    \A p \in Procs :
        Submitted(p) => /\ batch[p][1].record_id \notin ucsf_ids[p]
                        /\ batch[p][2].record_id \notin ucsf_ids[p]

\* C3: if the export holds a row with the passed mrn (normalized) and the
\* passed names up to letter case, the call warns, returns nothing and makes no
\* import call.
C3_DuplicateWarns ==
    \A p \in Procs :
        (Exported(p) /\ \E r \in RowsOfMrn(p) : SameIgnoringCase(p, r)) =>
            /\ pc[p] = "done" /\ outcome[p] = "warned"
            /\ ret[p] = None
            /\ ImportCalls(p) = 0 /\ ~Submitted(p)

\* C4: if the export holds a row with the passed mrn whose first or last name
\* differs (ignoring case), the call fails with the conflict error and makes no
\* import call.
C4_ConflictRaises ==
    \A p \in Procs :
        (Exported(p) /\ \E r \in RowsOfMrn(p) : ~SameIgnoringCase(p, r)) =>
            /\ pc[p] = "done" /\ outcome[p] = "ValueError"
            /\ ret[p] = None
            /\ ImportCalls(p) = 0 /\ ~Submitted(p)

\* C5: a call whose mrn, zero-padded to 8 digits, equals the normalized mrn of
\* an exported row never submits an import.
C5_NormalizedDuplicateNotImported ==
    \A p \in Procs :
        (Exported(p) /\ \E r \in MrnRows(records[p]) :
                            MrnKey(r.mrn) = Normalized(args[p].mrn)) =>
            /\ ImportCalls(p) = 0 /\ ~Submitted(p)

\* C7: a call that passed the duplicate check and got through its allocation
\* loops made exactly one import call, of two records, one per event, both
\* with record_id the short ID; the demographics record carries the short ID
\* and the GUID; unless the import raised, the call returns the pair written.
\* Before that point no import call is made, and a call stopped by the
\* duplicate check makes none and returns no pair.
C7_OneBatchOfTwo ==
    \A p \in Procs :
        /\ pc[p] \in {"verify", "done"} /\ Passed(p) =>
            /\ ImportCalls(p) = 1
            /\ Len(batch[p]) = 2
            /\ { batch[p][i].redcap_event_name : i \in 1..2 } = {PHI_EVENT, INFO_EVENT}
            /\ \A i \in 1..2 : batch[p][i].record_id = ucsf_id[p]
            /\ \A i \in 1..2 :
                 batch[p][i].redcap_event_name = INFO_EVENT =>
                    /\ batch[p][i].ucsf_id = ucsf_id[p]
                    /\ batch[p][i].ucsf_guid = ucsf_guid[p]
            /\ \A i \in 1..2 :
                 batch[p][i].redcap_event_name = PHI_EVENT =>
                    /\ batch[p][i].mrn = args[p].mrn
                    /\ batch[p][i].first_name = args[p].first_name
                    /\ batch[p][i].last_name = args[p].last_name
            /\ pc[p] = "done" /\ Imported(p) =>
                 /\ Returned(p)
                 /\ ret[p] = <<batch[p][1].record_id, ucsf_guid[p]>>
            /\ pc[p] = "done" /\ ~Imported(p) => ret[p] = None
        /\ pc[p] \in {"export", "draw_id", "draw_guid", "import"} =>
              ImportCalls(p) = 0 /\ ~Submitted(p)
        /\ pc[p] = "done" /\ ~Passed(p) =>
              ImportCalls(p) = 0 /\ ~Submitted(p) /\ ~Returned(p)

\* C7 witness: a call passed the check, imported its batch and returned the pair.
C7_Witness ==
    \E p \in Procs :
        /\ Returned(p) /\ Passed(p) /\ Imported(p)
        /\ ret[p] = <<batch[p][1].record_id, batch[p][2].ucsf_guid>>
        /\ <<ret[p][1], PHI_EVENT>> \in DOMAIN table

\* C8: as long as no connect has succeeded (database is None), every
\* add_patient call fails with the "not connected" RuntimeError and no export
\* or import reaches the records service.
C8_NotConnectedFailsFirst ==
    database = None =>
        /\ table = << >> /\ nimports = 0
        /\ \A p \in Procs :
            /\ pc[p] \in {"idle", "done"}
            /\ calls[p] = << >> /\ ~Imported(p) /\ ret[p] = None
            /\ pc[p] = "done" => outcome[p] = "RuntimeError"

\* C8 witness: add_patient failed on an instance constructed with another key
\* file and never connected.
C8_Witness ==
    /\ database = None /\ key_file # DEFAULT_KEY_FILE
    /\ \E p \in Procs : pc[p] = "done" /\ outcome[p] = "RuntimeError"

\* C9: when the verification re-fetch fails the call still returns the pair;
\* its service calls are one export, one import and the re-fetch, and the two
\* records it wrote are still in the table.
C9_UnverifiedStillReturns ==
    \A p \in Procs :
        pc[p] = "done" /\ outcome[p] = "returned_unverified" =>
            /\ ret[p] = <<ucsf_id[p], ucsf_guid[p]>>
            /\ calls[p] = <<"export_records", "import_records", "export_records">>
            /\ \A i \in 1..2 :
                 LET key == <<batch[p][i].record_id, batch[p][i].redcap_event_name>>
                 IN  key \in DOMAIN table /\ table[key] = batch[p][i]

\* C9 witness: a call ended with the verification warning.
C9_Witness ==
    \E p \in Procs : pc[p] = "done" /\ outcome[p] = "returned_unverified" /\ Imported(p)

\* C6: two concurrent calls for different patients that generated the same
\* short ID and both had their import accepted each took its export before the
\* other's import: neither call's exported rows hold the shared ID.
SharedId(p, q) ==
    /\ p # q /\ Generates(p) /\ Generates(q)
    /\ Imported(p) /\ Imported(q)
    /\ batch[p][1].record_id = batch[q][1].record_id

HoldsId(rows, id) ==
    \E r \in rows : ~IsNaN(r.ucsf_id) /\ IdOfCell(r.ucsf_id, IdLen) = id

C6_SharedIdOnlyByRace ==
    \A p, q \in Procs :
        SharedId(p, q) =>
            /\ ~HoldsId(records[p], ucsf_id[p])
            /\ ~HoldsId(records[q], ucsf_id[p])
            /\ ImportCalls(p) = 1 /\ ImportCalls(q) = 1
            /\ nimports >= 2

\* C6 witness: both calls exported the same rows, chose the same short ID,
\* imported and returned it, for patients with different mrn.
C6_Witness ==
    \E p, q \in Procs :
        /\ SharedId(p, q)
        /\ records[p] = records[q]
        /\ args[p].mrn # args[q].mrn
        /\ Returned(p) /\ Returned(q)
        /\ ret[p][1] = ret[q][1]

\* C10: the allocation loop ends, under fair draws, when a code is absent from
\* the existing set; it ends only on a code outside the set; and when every
\* code is in the set each draw leaves the call in the loop, with no error, no
\* import and nothing returned.
C10_LoopEndsIffCodeAbsent ==
    /\ \A p \in Procs :
          (pc[p] = "draw_id" /\ Codes \ ucsf_ids[p] # {}) ~> (pc[p] # "draw_id")
    /\ [][\A p \in Procs :
            pc[p] = "draw_id" /\ pc'[p] # "draw_id" =>
                ucsf_id'[p] \in Codes \ ucsf_ids[p]]_vars
    /\ [][\A p \in Procs :
            pc[p] = "draw_id" /\ Codes \subseteq ucsf_ids[p] =>
                /\ pc'[p] = "draw_id"
                /\ outcome'[p] = "running"
                /\ batch'[p] = << >> /\ ret'[p] = None
                /\ table' = table]_vars

\* C10 witness: every code is taken and the call has discarded a draw.
C10_Witness ==
    /\ pc[1] = "draw_id" /\ redrawn[1]
    /\ Codes \subseteq ucsf_ids[1]

=============================================================================
